---- MODULE Spec2Model ----
(***************************************************************************)
(* The FFmpeg process manager of the recorder (lib/ffmpeg-manager): the    *)
(* in-memory registry activeProcesses, the start/stop operations of the    *)
(* HLS stream and of the recording, stopAllProcesses, and the child        *)
(* processes' exit and error events, on Node's single-threaded event loop. *)
(* Time is counted in seconds.                                             *)
(***************************************************************************)
EXTENDS Integers, Sequences, FiniteSets, TLC

\* ------------------------------------------------------------------ bounds

\* calls of the manager that may be in flight at the same time
MaxTasks == 2
\* child processes spawned in one run
MaxProcs == 2
\* cameras that are configured
NumCameras == 1

\* ------------------------------------------------------- program constants

\* setTimeout(..., 5000) in stopHlsStream
HlsStopTimeout == 5
\* setTimeout(..., 10000) in stopRecording
RecordingStopTimeout == 10
\* setTimeout(..., 5000) in stopAllProcesses
StopAllTimeout == 5
\* setTimeout(resolve, 1000) in startHlsStream
SettleDelay == 1

\* The clock is sampled once per TickStep seconds: events of one sample come in
\* any order, a timer may fire in the sample its deadline can fall in and must
\* fire before the sample after it
TickStep == HlsStopTimeout

\* ------------------------------------------------------------------ inputs

CameraIds == <<"camera-1", "camera-2", "camera-3">>
Cameras == {CameraIds[i] : i \in 1..NumCameras}
Urls == {"", "rtsp://valid"}
Types == {"hls", "recording"}
Tasks == 1..MaxTasks

\* ChildProcess.pid of a child whose spawn failed
Undefined == -1
\* result.filename of a result object that has none
NoFilename == "undefined"

\* ----------------------------------------------------------------- helpers

\* a key that forgets the camera
GetProcessKeyType(cameraId, type) == type

\* a key that forgets the type of the process
GetProcessKeyCamera(cameraId, type) == cameraId

\* `${cameraId}-${type}`
GetProcessKey(cameraId, type) == cameraId \o "-" \o type

AllKeys == {GetProcessKey(c, ty) : c \in Cameras, ty \in Types}

\* Map.prototype.set / delete / clear on activeProcesses
EmptyMap == [x \in {} |-> 0]
MapSet(m, k, v) == [x \in DOMAIN m \cup {k} |-> IF x = k THEN v ELSE m[x]]
MapDelete(m, k) == [x \in DOMAIN m \ {k} |-> m[x]]

DigitStr == <<"0", "1", "2", "3", "4", "5", "6", "7", "8", "9">>
Pad2(n) == DigitStr[((n \div 10) % 10) + 1] \o DigitStr[(n % 10) + 1]

\* new Date().toISOString() with ':' and '.' replaced by '-', 'T' by '_', cut to
\* 19 characters, plus ".mp4"; the clock counts seconds from 2024-01-15T14:30:00Z
GenerateRecordingFilename(t) ==
    "2024-01-15_14-" \o Pad2(30 + (t \div 60)) \o "-" \o Pad2(t % 60) \o ".mp4"

\* a resolver that takes the fallback whatever ensureDir gave
OutputDirTmp(type, cameraId, where) ==
    <<"tmp", "vapr", IF type = "hls" THEN "streams" ELSE "recordings", cameraId>>

\* path.join(process.cwd(), appConfig.hlsDir | recordingsDir, cameraId) and the
\* fallback path.join(os.tmpdir(), 'vapr', 'streams' | 'recordings', cameraId)
OutputDir(type, cameraId, where) ==
    LET leaf == IF type = "hls" THEN "streams" ELSE "recordings"
    IN  IF where = "primary"
        THEN IF type = "hls" THEN <<"cwd", "public", leaf, cameraId>>
                             ELSE <<"cwd", leaf, cameraId>>
        ELSE <<"tmp", "vapr", leaf, cameraId>>

\* a split that keeps the first segment of the path
PathFirst(p) == p[1]

\* how the calls of ensureDir of a start went, up to its spawn
EnsuredDirs(where) == IF where = "primary" THEN <<TRUE>> ELSE <<FALSE, TRUE>>

\* outputPath.split(path.sep).pop()
PathPop(p) == p[Len(p)]

\* pid || 0
EntryPid(pid) == IF pid = Undefined THEN 0 ELSE pid

\* ------------------------------------------------------------------- state

VARIABLES
    activeProcesses,  \* the registry: key -> [process, entry]
    procs,            \* the ChildProcess objects spawned so far
    tasks,            \* the calls in flight, one slot each
    now,              \* the clock: the seconds in which it has been read
    clockRead,        \* the clock has been read in the current second
    last,             \* what the last step did, as its caller sees it
    started,          \* per key: the start that last spawned and returned
                      \* success with no other call on the key since
    host,             \* the Node process: "running", or "exited" by process.exit
    lastFilename      \* the filename generateRecordingFilename gave last

clock == <<now, clockRead>>

vars ==
    <<activeProcesses, procs, tasks, now, clockRead, last, started, host,
      lastFilename>>

IdleTask ==
    [op |-> "idle", cameraId |-> "", pc |-> "idle", proc |-> 0, pending |-> {},
     timer |-> 0, solo |-> TRUE, exitSeen |-> FALSE,
     killed |-> FALSE, snapshot |-> {}, graceful |-> "", byHost |-> FALSE]

NoStart == [proc |-> 0, filename |-> NoFilename]

\* the fields of `last`; ev is "internal" for a step no caller sees
Event(ev, op, cameraId) ==
    [ev |-> ev, op |-> op, cameraId |-> cameraId, url |-> "", probe |-> FALSE,
     probed |-> FALSE, hadEntry |-> FALSE, result |-> FALSE,
     filename |-> NoFilename, spawned |-> 0, proc |-> 0, sent |-> {},
     exitSeen |-> FALSE, killed |-> FALSE, elapsed |-> 0, solo |-> TRUE,
     snapshot |-> {}, graceful |-> "", intThrew |-> FALSE, dirs |-> <<>>,
     byHost |-> FALSE, isStreaming |-> FALSE, isRecording |-> FALSE,
     info |-> {}, listActive |-> EmptyMap]

Internal(what) == Event("internal", "", "")

TaskKey(task) ==
    IF task.op \in {"startHlsStream", "stopHlsStream"}
    THEN GetProcessKey(task.cameraId, "hls")
    ELSE GetProcessKey(task.cameraId, "recording")

\* a continuation (await resumed) is queued: it runs before any other event
NoMicrotask == \A t \in Tasks : tasks[t].pc \notin {"resolved", "exiting"}
\* process.nextTick(onErrorNT) of a failed spawn is queued
ErrorPending == \E p \in DOMAIN procs : procs[p].state = "failed"
\* the caller of the last step has taken its result, and the host is there
Quiet == last.ev = "internal" /\ host = "running"
\* a call can begin
CallReady == Quiet /\ NoMicrotask
\* an event of the loop (a timer, an I/O callback, a child's exit) can run
MacroReady == Quiet /\ NoMicrotask /\ ~ErrorPending

\* a new call on key k overlaps the calls in flight on k (and any stopAll)
Overlapped(t, k) ==
    {u \in Tasks \ {t} : tasks[u].op # "idle" /\
        (tasks[u].op = "stopAllProcesses" \/ TaskKey(tasks[u]) = k)}

MarkOverlap(ts, t, k) ==
    [u \in Tasks |-> IF u \in Overlapped(t, k)
                     THEN [ts[u] EXCEPT !.solo = FALSE] ELSE ts[u]]

\* a timer that never fires
DueNever(timer) == FALSE

\* a timer that may fire as soon as it is set
DueAtOnce(timer) == TRUE

\* a timer with this much time left may fire
Due(timer) == timer < TickStep

\* what a Tick leaves of a timer
Elapse(timer) == IF timer > TickStep THEN timer - TickStep ELSE 0

\* a new call takes the first free slot (the slots are interchangeable)
FreeSlot(t) ==
    /\ tasks[t].op = "idle"
    /\ \A u \in Tasks : u < t => tasks[u].op # "idle"

\* room for one more spawn
SpawnBudget == Len(procs) < MaxProcs

\* the time a stop waits before it kills, by the kind of the process
KindTimeout(type) ==
    IF type = "hls" THEN HlsStopTimeout ELSE RecordingStopTimeout

\* child_process.spawn: a new ChildProcess, with a pid or (spawn failed) without.
\* window, earlyKill and lateExit record the history of its signals: the time
\* left of KindTimeout since stopHlsStream / stopRecording first signalled it
\* (NoWindow before that, WindowOver after it), whether a SIGKILL reached it
\* before that time was over, and whether it exited after it without a SIGKILL;
\* type, cameraId, signals and window are kept while the child is there
NoWindow == -1
WindowOver == -2
NewProc(type, cameraId, pidOk) ==
    [pid |-> IF pidOk THEN 4242 + Len(procs) ELSE Undefined,
     type |-> type, cameraId |-> cameraId,
     state |-> IF pidOk THEN "running" ELSE "failed",
     signals |-> {}, window |-> NoWindow, earlyKill |-> FALSE,
     lateExit |-> FALSE]

\* ChildProcess.kill(sig): delivered to a child that runs, a no-op otherwise
Kill(ps, p, sig, byStop) ==
    IF ps[p].state # "running" THEN ps
    ELSE LET w == IF byStop /\ sig # "SIGKILL" /\ ps[p].window = NoWindow
                  THEN KindTimeout(ps[p].type) ELSE ps[p].window
         IN  [ps EXCEPT
                ![p].signals = @ \cup {sig},
                ![p].window = w,
                ![p].earlyKill = @ \/ (w > 0 /\ "SIGKILL" \in ps[p].signals \cup {sig})]

Delivered(p, sig) == IF procs[p].state = "running" THEN {<<p, sig>>} ELSE {}

Init ==
    /\ activeProcesses = EmptyMap
    /\ procs = <<>>
    /\ tasks = [t \in Tasks |-> IdleTask]
    /\ now = 0
    /\ clockRead = FALSE
    /\ last = Internal("init")
    /\ started = [k \in AllKeys |-> NoStart]
    /\ host = "running"
    /\ lastFilename = NoFilename

\* ------------------------------------------------------------ startHlsStream

\* a start that never takes the early exit of the empty URL
InvalidSourceNever(rtspUrl) == FALSE

\* if (!rtspUrl)
InvalidSource(rtspUrl) == rtspUrl = ""

\* a start that looks for the entry before it looks at the URL and the probe
EarlyExitEntryFirst(rtspUrl, ffmpegOk, has) ==
    IF has THEN "has"
    ELSE IF InvalidSource(rtspUrl) THEN "url"
    ELSE IF ~ffmpegOk THEN "probe"
    ELSE "none"

\* the early exit a start takes: if (!rtspUrl), if (!isFfmpegAvailable()),
\* if (activeProcesses.has(key)), in this order
EarlyExit(rtspUrl, ffmpegOk, has) ==
    IF InvalidSource(rtspUrl) THEN "url"
    ELSE IF ~ffmpegOk THEN "probe"
    ELSE IF has THEN "has"
    ELSE "none"

\* the call up to its first await: the three early exits, in the code's order
StartHlsStream(t, cameraId, rtspUrl, ffmpegOk) ==
    LET key == GetProcessKey(cameraId, "hls")
        ev  == [Event("return", "startHlsStream", cameraId) EXCEPT
                   !.url = rtspUrl, !.probe = ffmpegOk,
                   !.solo = (Overlapped(t, key) = {}),
                   !.hadEntry = (key \in DOMAIN activeProcesses)]
        exit == EarlyExit(rtspUrl, ffmpegOk, key \in DOMAIN activeProcesses)
    IN  /\ CallReady
        /\ FreeSlot(t)
        /\ UNCHANGED <<activeProcesses, procs, clock, started, host, lastFilename>>
        /\ IF exit = "url"
           THEN /\ tasks' = MarkOverlap(tasks, t, key)
                /\ last' = [ev EXCEPT !.result = FALSE]
           ELSE IF exit = "probe"
           THEN /\ tasks' = MarkOverlap(tasks, t, key)
                /\ last' = [ev EXCEPT !.probed = TRUE, !.result = FALSE]
           ELSE IF exit = "has"
           THEN /\ tasks' = MarkOverlap(tasks, t, key)
                /\ last' = [ev EXCEPT !.probed = TRUE, !.result = TRUE]
           ELSE /\ tasks' = [MarkOverlap(tasks, t, key) EXCEPT ![t] =
                        [IdleTask EXCEPT !.op = "startHlsStream",
                            !.cameraId = cameraId, !.pc = "ensureDir",
                            !.solo = (Overlapped(t, key) = {})]]
                /\ last' = [ev EXCEPT !.ev = "call", !.probed = TRUE]

\* spawn, the listeners, activeProcesses.set, and the settle delay's timer
SpawnHls(t, where, pidOk) ==
    LET cameraId == tasks[t].cameraId
        key == GetProcessKey(cameraId, "hls")
        p == Len(procs) + 1
        child == NewProc("hls", cameraId, pidOk)
        playlistPath == Append(OutputDir("hls", cameraId, where), "stream.m3u8")
    IN  /\ SpawnBudget
        /\ procs' = Append(procs, child)
        /\ activeProcesses' = MapSet(activeProcesses, key,
              [process |-> p,
               entry |-> [pid |-> EntryPid(child.pid), type |-> "hls",
                          cameraId |-> cameraId, startTime |-> now,
                          outputPath |-> playlistPath]])
        /\ tasks' = [tasks EXCEPT ![t].pc = "settle", ![t].proc = p,
                                  ![t].timer = SettleDelay]
        /\ last' = [Event("spawn", "startHlsStream", cameraId) EXCEPT
                       !.spawned = p, !.solo = tasks[t].solo,
                       !.dirs = EnsuredDirs(where)]
        /\ now' = now
        /\ clockRead' = TRUE
        /\ UNCHANGED <<started, host, lastFilename>>

\* await ensureDir(hlsOutputDir) resumes: the directory is there, or the catch
HlsEnsureDir(t, dirOk, pidOk) ==
    /\ MacroReady
    /\ tasks[t].op = "startHlsStream"
    /\ tasks[t].pc = "ensureDir"
    /\ IF dirOk
       THEN SpawnHls(t, "primary", pidOk)
       ELSE /\ tasks' = [tasks EXCEPT ![t].pc = "ensureFallback"]
            /\ last' = Internal("ensureDir")
            /\ UNCHANGED <<activeProcesses, procs, clock, started, host, lastFilename>>

\* await ensureDir(<tmpdir>/vapr/streams/<id>) resumes, or rejects the call
HlsEnsureFallback(t, dirOk, pidOk) ==
    /\ MacroReady
    /\ tasks[t].op = "startHlsStream"
    /\ tasks[t].pc = "ensureFallback"
    /\ IF dirOk
       THEN SpawnHls(t, "fallback", pidOk)
       ELSE /\ tasks' = [tasks EXCEPT ![t] = IdleTask]
            /\ last' = [Event("reject", "startHlsStream", tasks[t].cameraId)
                           EXCEPT !.solo = tasks[t].solo,
                                  !.dirs = <<FALSE, FALSE>>]
            /\ UNCHANGED <<activeProcesses, procs, clock, started, host, lastFilename>>

\* the value startHlsStream returns for the child it spawned
HlsResult(p) == procs[p].pid # Undefined

\* the settle delay is over: return ffmpegProcess.pid !== undefined
HlsSettled(t) ==
    LET cameraId == tasks[t].cameraId
        key == GetProcessKey(cameraId, "hls")
        p == tasks[t].proc
        result == HlsResult(p)
    IN  /\ MacroReady
        /\ tasks[t].op = "startHlsStream"
        /\ tasks[t].pc = "settle"
        /\ Due(tasks[t].timer)
        /\ tasks' = [tasks EXCEPT ![t] = IdleTask]
        /\ last' = [Event("return", "startHlsStream", cameraId) EXCEPT
                       !.result = result, !.spawned = p,
                       !.solo = tasks[t].solo,
                       !.elapsed = SettleDelay - tasks[t].timer]
        /\ UNCHANGED <<host, lastFilename>>
        /\ started' = [started EXCEPT ![key] =
                          IF result /\ tasks[t].solo
                          THEN [proc |-> p, filename |-> NoFilename]
                          ELSE NoStart]
        /\ UNCHANGED <<activeProcesses, procs, clock>>

\* ------------------------------------------------------------ startRecording

\* the filename of the entry that is there: outputPath.split(path.sep).pop()
ExistingFilename(key) == PathPop(activeProcesses[key].entry.outputPath)

StartRecording(t, cameraId, rtspUrl, ffmpegOk) ==
    LET key == GetProcessKey(cameraId, "recording")
        ev  == [Event("return", "startRecording", cameraId) EXCEPT
                   !.url = rtspUrl, !.probe = ffmpegOk,
                   !.solo = (Overlapped(t, key) = {}),
                   !.hadEntry = (key \in DOMAIN activeProcesses)]
        exit == EarlyExit(rtspUrl, ffmpegOk, key \in DOMAIN activeProcesses)
    IN  /\ CallReady
        /\ FreeSlot(t)
        /\ UNCHANGED <<activeProcesses, procs, clock, started, host, lastFilename>>
        /\ IF exit = "url"
           THEN /\ tasks' = MarkOverlap(tasks, t, key)
                /\ last' = [ev EXCEPT !.result = FALSE]
           ELSE IF exit = "probe"
           THEN /\ tasks' = MarkOverlap(tasks, t, key)
                /\ last' = [ev EXCEPT !.probed = TRUE, !.result = FALSE]
           ELSE IF exit = "has"
           THEN /\ tasks' = MarkOverlap(tasks, t, key)
                /\ last' = [ev EXCEPT !.probed = TRUE, !.result = TRUE,
                                      !.filename = ExistingFilename(key)]
           ELSE /\ tasks' = [MarkOverlap(tasks, t, key) EXCEPT ![t] =
                        [IdleTask EXCEPT !.op = "startRecording",
                            !.cameraId = cameraId, !.pc = "ensureDir",
                            !.solo = (Overlapped(t, key) = {})]]
                /\ last' = [ev EXCEPT !.ev = "call", !.probed = TRUE]

\* a start that reports success whatever the spawn gave
RecordingSuccessAlways(child) == TRUE

\* the success field startRecording returns for the child it spawned
RecordingSuccess(child) == child.pid # Undefined

\* generateRecordingFilename, spawn, the listeners, activeProcesses.set, return
SpawnRecording(t, where, pidOk) ==
    LET cameraId == tasks[t].cameraId
        key == GetProcessKey(cameraId, "recording")
        p == Len(procs) + 1
        child == NewProc("recording", cameraId, pidOk)
        filename == GenerateRecordingFilename(now)
        outputPath == Append(OutputDir("recording", cameraId, where), filename)
        success == RecordingSuccess(child)
    IN  /\ SpawnBudget
        /\ procs' = Append(procs, child)
        /\ activeProcesses' = MapSet(activeProcesses, key,
              [process |-> p,
               entry |-> [pid |-> EntryPid(child.pid), type |-> "recording",
                          cameraId |-> cameraId, startTime |-> now,
                          outputPath |-> outputPath]])
        /\ tasks' = [tasks EXCEPT ![t] = IdleTask]
        /\ last' = [Event("return", "startRecording", cameraId) EXCEPT
                       !.result = success, !.filename = filename,
                       !.spawned = p, !.solo = tasks[t].solo,
                       !.dirs = EnsuredDirs(where)]
        /\ lastFilename' = filename
        /\ UNCHANGED host
        /\ started' = [started EXCEPT ![key] =
                          IF success /\ tasks[t].solo
                          THEN [proc |-> p, filename |-> filename]
                          ELSE NoStart]
        /\ now' = now
        /\ clockRead' = TRUE

RecordingEnsureDir(t, dirOk, pidOk) ==
    /\ MacroReady
    /\ tasks[t].op = "startRecording"
    /\ tasks[t].pc = "ensureDir"
    /\ IF dirOk
       THEN SpawnRecording(t, "primary", pidOk)
       ELSE /\ tasks' = [tasks EXCEPT ![t].pc = "ensureFallback"]
            /\ last' = Internal("ensureDir")
            /\ UNCHANGED <<activeProcesses, procs, clock, started, host, lastFilename>>

RecordingEnsureFallback(t, dirOk, pidOk) ==
    /\ MacroReady
    /\ tasks[t].op = "startRecording"
    /\ tasks[t].pc = "ensureFallback"
    /\ IF dirOk
       THEN SpawnRecording(t, "fallback", pidOk)
       ELSE /\ tasks' = [tasks EXCEPT ![t] = IdleTask]
            /\ last' = [Event("reject", "startRecording", tasks[t].cameraId)
                           EXCEPT !.solo = tasks[t].solo,
                                  !.dirs = <<FALSE, FALSE>>]
            /\ UNCHANGED <<activeProcesses, procs, clock, started, host, lastFilename>>

\* ------------------------------------------------------------- stopHlsStream

\* a stop that reports a miss as a failure
StopMissFails == FALSE

\* what a stop returns when there is no entry: return true
StopMissResult == TRUE

\* the call up to its await: no entry, or SIGTERM and the 5 s timer
StopHlsStream(t, cameraId) ==
    LET key == GetProcessKey(cameraId, "hls")
        ev  == [Event("return", "stopHlsStream", cameraId) EXCEPT
                   !.solo = (Overlapped(t, key) = {}),
                   !.hadEntry = (key \in DOMAIN activeProcesses)]
    IN  /\ CallReady
        /\ FreeSlot(t)
        /\ UNCHANGED <<host, lastFilename>>
        /\ started' = [started EXCEPT ![key] = NoStart]
        /\ UNCHANGED <<activeProcesses, clock>>
        /\ IF key \notin DOMAIN activeProcesses
           THEN /\ tasks' = MarkOverlap(tasks, t, key)
                /\ last' = [ev EXCEPT !.result = StopMissResult]
                /\ UNCHANGED procs
           ELSE LET p == activeProcesses[key].process
                IN  /\ procs' = Kill(procs, p, "SIGTERM", TRUE)
                    /\ tasks' = [MarkOverlap(tasks, t, key) EXCEPT ![t] =
                          [IdleTask EXCEPT !.op = "stopHlsStream",
                              !.cameraId = cameraId, !.pc = "wait",
                              !.proc = p,
                              !.timer = HlsStopTimeout,
                              !.solo = (Overlapped(t, key) = {})]]
                    /\ last' = [ev EXCEPT !.ev = "call", !.proc = p,
                                   !.sent = Delivered(p, "SIGTERM")]

\* the timer's callback: SIGKILL, resolve
StopHlsTimer(t) ==
    LET p == tasks[t].proc
    IN  /\ MacroReady
        /\ tasks[t].op = "stopHlsStream"
        /\ tasks[t].pc = "wait"
        /\ Due(tasks[t].timer)
        /\ procs' = Kill(procs, p, "SIGKILL", FALSE)
        /\ tasks' = [tasks EXCEPT ![t].pc = "resolved", ![t].killed = TRUE]
        /\ last' = [Event("timeout", "stopHlsStream", tasks[t].cameraId)
                       EXCEPT !.proc = p, !.sent = Delivered(p, "SIGKILL")]
        /\ UNCHANGED <<activeProcesses, clock, started, host, lastFilename>>

\* a tail that leaves the entry in the registry
StopTailKeep(key) == activeProcesses

\* what the tail of a stop leaves of the registry: activeProcesses.delete(key)
StopTail(key) == MapDelete(activeProcesses, key)

\* the await resumes: activeProcesses.delete(key); return true
StopHlsReturn(t) ==
    LET key == GetProcessKey(tasks[t].cameraId, "hls")
    IN  /\ Quiet
        /\ tasks[t].op = "stopHlsStream"
        /\ tasks[t].pc = "resolved"
        /\ activeProcesses' = StopTail(key)
        /\ tasks' = [tasks EXCEPT ![t] = IdleTask]
        /\ last' = [Event("return", "stopHlsStream", tasks[t].cameraId)
                       EXCEPT !.result = TRUE, !.hadEntry = TRUE,
                              !.proc = tasks[t].proc,
                              !.exitSeen = tasks[t].exitSeen,
                              !.killed = tasks[t].killed,
                              !.elapsed = HlsStopTimeout - tasks[t].timer,
                              !.solo = tasks[t].solo]
        /\ UNCHANGED <<procs, clock, started, host, lastFilename>>

\* ------------------------------------------------------------- stopRecording

\* a stopRecording that asks with SIGTERM at once
GracefulSignalTerm(intOk) == "SIGTERM"

\* try { kill('SIGINT') } catch { kill('SIGTERM') }
GracefulSignal(intOk) == IF intOk THEN "SIGINT" ELSE "SIGTERM"

\* the call up to its await: no entry, or SIGINT (SIGTERM when kill throws) and
\* the 10 s timer
StopRecording(t, cameraId, intOk) ==
    LET key == GetProcessKey(cameraId, "recording")
        ev  == [Event("return", "stopRecording", cameraId) EXCEPT
                   !.solo = (Overlapped(t, key) = {}),
                   !.hadEntry = (key \in DOMAIN activeProcesses)]
    IN  /\ CallReady
        /\ FreeSlot(t)
        /\ UNCHANGED <<host, lastFilename>>
        /\ started' = [started EXCEPT ![key] = NoStart]
        /\ UNCHANGED <<activeProcesses, clock>>
        /\ IF key \notin DOMAIN activeProcesses
           THEN /\ tasks' = MarkOverlap(tasks, t, key)
                /\ last' = [ev EXCEPT !.result = StopMissResult]
                /\ UNCHANGED procs
           ELSE LET p == activeProcesses[key].process
                    sig == GracefulSignal(intOk)
                IN  /\ procs' = Kill(procs, p, sig, TRUE)
                    /\ tasks' = [MarkOverlap(tasks, t, key) EXCEPT ![t] =
                          [IdleTask EXCEPT !.op = "stopRecording",
                              !.cameraId = cameraId, !.pc = "wait",
                              !.proc = p,
                              !.timer = RecordingStopTimeout,
                              !.graceful = sig,
                              !.solo = (Overlapped(t, key) = {})]]
                    /\ last' = [ev EXCEPT !.ev = "call", !.proc = p,
                                   !.graceful = sig, !.intThrew = ~intOk,
                                   !.sent = Delivered(p, sig)]

StopRecordingTimer(t) ==
    LET p == tasks[t].proc
    IN  /\ MacroReady
        /\ tasks[t].op = "stopRecording"
        /\ tasks[t].pc = "wait"
        /\ Due(tasks[t].timer)
        /\ procs' = Kill(procs, p, "SIGKILL", FALSE)
        /\ tasks' = [tasks EXCEPT ![t].pc = "resolved", ![t].killed = TRUE]
        /\ last' = [Event("timeout", "stopRecording", tasks[t].cameraId)
                       EXCEPT !.proc = p, !.sent = Delivered(p, "SIGKILL")]
        /\ UNCHANGED <<activeProcesses, clock, started, host, lastFilename>>

StopRecordingReturn(t) ==
    LET key == GetProcessKey(tasks[t].cameraId, "recording")
    IN  /\ Quiet
        /\ tasks[t].op = "stopRecording"
        /\ tasks[t].pc = "resolved"
        /\ activeProcesses' = StopTail(key)
        /\ tasks' = [tasks EXCEPT ![t] = IdleTask]
        /\ last' = [Event("return", "stopRecording", tasks[t].cameraId)
                       EXCEPT !.result = TRUE, !.hadEntry = TRUE,
                              !.proc = tasks[t].proc,
                              !.exitSeen = tasks[t].exitSeen,
                              !.killed = tasks[t].killed,
                              !.elapsed = RecordingStopTimeout - tasks[t].timer,
                              !.graceful = tasks[t].graceful,
                              !.solo = tasks[t].solo]
        /\ UNCHANGED <<procs, clock, started, host, lastFilename>>

\* ---------------------------------------------------------- stopAllProcesses

\* a loop that signals nothing
KillNone(ps, targets, sig) == ps

\* processInfo.process.kill(sig) for each of the targets
KillAll(ps, targets, sig) ==
    [q \in DOMAIN ps |-> IF q \in targets THEN Kill(ps, q, sig, FALSE)[q]
                         ELSE ps[q]]

DeliveredAll(targets, sig) ==
    {<<q, sig>> : q \in {r \in targets : procs[r].state = "running"}}

\* a stopAllProcesses that asks with SIGINT
StopAllSignalInt == "SIGINT"

\* processInfo.process.kill('SIGTERM') in the loop of stopAllProcesses
StopAllSignal == "SIGTERM"

\* the loop over the registry: SIGTERM and a 5 s timer for every entry
StopAllProcesses(t, byHost) ==
    LET targets == {activeProcesses[k].process : k \in DOMAIN activeProcesses}
    IN  /\ CallReady
        /\ FreeSlot(t)
        /\ procs' = KillAll(procs, targets, StopAllSignal)
        /\ tasks' = [u \in Tasks |->
              IF u = t
              THEN [IdleTask EXCEPT !.op = "stopAllProcesses",
                       !.pc = IF targets = {} THEN "resolved" ELSE "wait",
                       !.pending = targets, !.snapshot = targets,
                       !.byHost = byHost,
                       !.timer = StopAllTimeout,
                       !.solo = (\A v \in Tasks : tasks[v].op = "idle")]
              ELSE IF tasks[u].op # "idle"
              THEN [tasks[u] EXCEPT !.solo = FALSE] ELSE tasks[u]]
        /\ UNCHANGED <<host, lastFilename>>
        /\ started' = [k \in AllKeys |-> NoStart]
        /\ last' = [Event("call", "stopAllProcesses", "") EXCEPT
                       !.snapshot = targets, !.byHost = byHost,
                       !.sent = DeliveredAll(targets, StopAllSignal)]
        /\ UNCHANGED <<activeProcesses, clock>>

\* the timers of the children that have not exited: SIGKILL, resolve
StopAllTimer(t) ==
    LET left == tasks[t].pending
    IN  /\ MacroReady
        /\ tasks[t].op = "stopAllProcesses"
        /\ tasks[t].pc = "wait"
        /\ Due(tasks[t].timer)
        /\ procs' = KillAll(procs, left, "SIGKILL")
        /\ tasks' = [tasks EXCEPT ![t].pc = "resolved", ![t].pending = {},
                                  ![t].killed = TRUE]
        /\ last' = [Event("timeout", "stopAllProcesses", "") EXCEPT
                       !.snapshot = tasks[t].snapshot,
                       !.elapsed = StopAllTimeout - tasks[t].timer,
                       !.sent = DeliveredAll(left, "SIGKILL")]
        /\ UNCHANGED <<activeProcesses, clock, started, host, lastFilename>>

\* a stopAllProcesses that leaves the registry as it is
StopAllTailKeep == activeProcesses

\* what stopAllProcesses leaves of the registry: activeProcesses.clear()
StopAllTail == EmptyMap

\* await Promise.all resumes: activeProcesses.clear()
StopAllReturn(t) ==
    /\ Quiet
    /\ tasks[t].op = "stopAllProcesses"
    /\ tasks[t].pc = "resolved"
    /\ activeProcesses' = StopAllTail
    /\ tasks' = [tasks EXCEPT ![t] =
                    IF tasks[t].byHost THEN [tasks[t] EXCEPT !.pc = "exiting"]
                    ELSE IdleTask]
    /\ last' = [Event("return", "stopAllProcesses", "") EXCEPT
                   !.snapshot = tasks[t].snapshot,
                   !.byHost = tasks[t].byHost,
                   !.killed = tasks[t].killed,
                   !.elapsed = StopAllTimeout - tasks[t].timer,
                   !.solo = tasks[t].solo]
    /\ UNCHANGED <<procs, clock, started, host, lastFilename>>

\* a handler that exits without waiting for its stopAllProcesses
ExitAtOnce(task) == TRUE

\* the callback of .then runs when the promise of stopAllProcesses is resolved
ExitReady(task) == task.pc = "exiting"

\* process.on('SIGTERM' | 'SIGINT', () => stopAllProcesses().then(() =>
\* process.exit(0))): the callback of .then
HostExit(t) ==
    /\ Quiet
    /\ tasks[t].op = "stopAllProcesses"
    /\ tasks[t].byHost
    /\ ExitReady(tasks[t])
    /\ host' = "exited"
    /\ last' = [Event("exit", "stopAllProcesses", "") EXCEPT
                   !.snapshot = tasks[t].snapshot, !.byHost = TRUE,
                   !.killed = tasks[t].killed]
    /\ UNCHANGED <<activeProcesses, procs, tasks, clock, started, lastFilename>>

\* ------------------------------------------------------ the children's events

\* an 'exit' listener that leaves the registry as it is
ExitListenerKeep(key) == activeProcesses

\* the 'exit' listener of a start: activeProcesses.delete(key)
ExitListener(key) == MapDelete(activeProcesses, key)

\* the 'error' listener of a start: activeProcesses.delete(key)
ErrorListener(key) == MapDelete(activeProcesses, key)

\* a child exits (on a signal or on its own): the 'exit' listeners run, the one
\* of its start first, then those of the stops that wait for it
ProcExit(p) ==
    /\ MacroReady
    /\ procs[p].state = "running"
    /\ procs' = [procs EXCEPT ![p].state = "exited",
          ![p].type = "", ![p].cameraId = "",
          ![p].signals = {}, ![p].window = NoWindow,
          ![p].lateExit = (procs[p].window = WindowOver
                           /\ "SIGKILL" \notin procs[p].signals)]
    /\ activeProcesses' =
           ExitListener(GetProcessKey(procs[p].cameraId, procs[p].type))
    /\ tasks' = [t \in Tasks |->
          IF tasks[t].pc = "wait" /\ tasks[t].proc = p
             /\ tasks[t].op \in {"stopHlsStream", "stopRecording"}
          THEN [tasks[t] EXCEPT !.pc = "resolved", !.exitSeen = TRUE]
          ELSE IF tasks[t].pc = "wait" /\ tasks[t].op = "stopAllProcesses"
                  /\ p \in tasks[t].pending
          THEN [tasks[t] EXCEPT !.pending = @ \ {p},
                   !.pc = IF tasks[t].pending = {p} THEN "resolved" ELSE "wait"]
          ELSE tasks[t]]
    /\ last' = Internal("exit")
    /\ UNCHANGED <<clock, started, host, lastFilename>>

\* the 'error' listener of a child whose spawn failed
ProcError(p) ==
    /\ CallReady
    /\ procs[p].state = "failed"
    /\ procs' = [procs EXCEPT ![p].state = "errored",
                             ![p].type = "", ![p].cameraId = ""]
    /\ activeProcesses' =
           ErrorListener(GetProcessKey(procs[p].cameraId, procs[p].type))
    /\ last' = Internal("error")
    /\ UNCHANGED <<tasks, clock, started, host, lastFilename>>

\* TickStep seconds pass; a timer whose time is up fires first. The clock moves
\* on only from a sample in which it was read: samples nobody read are not
\* counted
Tick ==
    /\ MacroReady
    /\ \A t \in Tasks : tasks[t].pc \in {"wait", "settle"} => tasks[t].timer > 0
    /\ clockRead \/ \E t \in Tasks : tasks[t].pc \in {"wait", "settle"}
    /\ now' = IF clockRead THEN now + TickStep ELSE now
    /\ clockRead' = FALSE
    /\ tasks' = [t \in Tasks |->
          IF tasks[t].pc \in {"wait", "settle"}
          THEN [tasks[t] EXCEPT !.timer = Elapse(@)] ELSE tasks[t]]
    /\ procs' = [p \in DOMAIN procs |->
          IF procs[p].state = "running" /\ procs[p].window >= 0
          THEN [procs[p] EXCEPT !.window = IF @ = 0 THEN WindowOver ELSE Elapse(@)]
          ELSE procs[p]]
    /\ last' = Internal("tick")
    /\ UNCHANGED <<activeProcesses, started, host, lastFilename>>

\* the caller has taken what the last step gave it
Ack ==
    /\ last.ev # "internal"
    /\ last' = Internal("ack")
    /\ UNCHANGED <<activeProcesses, procs, tasks, clock, started, host, lastFilename>>

\* ------------------------------------------------------------------ queries

IsStreaming(cameraId) == GetProcessKey(cameraId, "hls") \in DOMAIN activeProcesses

IsRecording(cameraId) ==
    GetProcessKey(cameraId, "recording") \in DOMAIN activeProcesses

\* a getRecordingInfo that never finds anything
GetRecordingInfoNone(cameraId) == {}

\* activeProcesses.get(key)?.entry; {} stands for undefined
GetRecordingInfo(cameraId) ==
    LET key == GetProcessKey(cameraId, "recording")
    IN  IF key \in DOMAIN activeProcesses THEN {activeProcesses[key].entry} ELSE {}

\* Array.from(activeProcesses.values()).map(p => p.entry), in key order
GetAllActiveProcesses ==
    [k \in DOMAIN activeProcesses |-> activeProcesses[k].entry]

\* a caller asks the four queries about a camera, in one turn of the loop
Query(cameraId) ==
    /\ CallReady
    /\ last' = [Event("return", "query", cameraId) EXCEPT
                   !.isStreaming = IsStreaming(cameraId),
                   !.isRecording = IsRecording(cameraId),
                   !.info = GetRecordingInfo(cameraId),
                   !.listActive = GetAllActiveProcesses]
    /\ UNCHANGED <<activeProcesses, procs, tasks, clock, started, host,
                   lastFilename>>

\* ------------------------------------------------------------ specification

Step ==
    \/ \E t \in Tasks, c \in Cameras, u \in Urls, ok \in BOOLEAN :
          StartHlsStream(t, c, u, ok)
    \/ \E t \in Tasks, dirOk \in BOOLEAN, pidOk \in BOOLEAN :
          HlsEnsureDir(t, dirOk, pidOk)
    \/ \E t \in Tasks, dirOk \in BOOLEAN, pidOk \in BOOLEAN :
          HlsEnsureFallback(t, dirOk, pidOk)
    \/ \E t \in Tasks : HlsSettled(t)
    \/ \E t \in Tasks, c \in Cameras, u \in Urls, ok \in BOOLEAN :
          StartRecording(t, c, u, ok)
    \/ \E t \in Tasks, dirOk \in BOOLEAN, pidOk \in BOOLEAN :
          RecordingEnsureDir(t, dirOk, pidOk)
    \/ \E t \in Tasks, dirOk \in BOOLEAN, pidOk \in BOOLEAN :
          RecordingEnsureFallback(t, dirOk, pidOk)
    \/ \E t \in Tasks, c \in Cameras : StopHlsStream(t, c)
    \/ \E t \in Tasks : StopHlsTimer(t)
    \/ \E t \in Tasks : StopHlsReturn(t)
    \/ \E t \in Tasks, c \in Cameras, intOk \in BOOLEAN : StopRecording(t, c, intOk)
    \/ \E t \in Tasks : StopRecordingTimer(t)
    \/ \E t \in Tasks : StopRecordingReturn(t)
    \/ \E t \in Tasks, byHost \in BOOLEAN : StopAllProcesses(t, byHost)
    \/ \E t \in Tasks : HostExit(t)
    \/ \E t \in Tasks : StopAllTimer(t)
    \/ \E t \in Tasks : StopAllReturn(t)
    \/ \E p \in DOMAIN procs : ProcExit(p)
    \/ \E p \in DOMAIN procs : ProcError(p)
    \/ \E c \in Cameras : Query(c)
    \/ Tick

Next == Ack \/ Step

Spec == Init /\ [][Next]_vars

\* ------------------------------------------------------------------ claims

StartOps == {"startHlsStream", "startRecording"}
StopOps == {"stopHlsStream", "stopRecording"}

TypeOf(op) == IF op \in {"startHlsStream", "stopHlsStream"} THEN "hls" ELSE "recording"

\* the key the operation of the last step works on
LastKey == GetProcessKey(last.cameraId, TypeOf(last.op))

\* the children of key k that have not exited
Live(k) ==
    {p \in DOMAIN procs :
        /\ procs[p].state = "running"
        /\ GetProcessKey(procs[p].cameraId, procs[p].type) = k}

\* the last step was a start call that came, alone, after a start of the same
\* key that spawned a child with a pid and returned success, with that child
\* still running and no stop called since
SecondStart ==
    /\ last.op \in StartOps
    /\ last.probed /\ last.probe /\ last.url # ""
    /\ last.solo
    /\ started[LastKey].proc # 0
    /\ procs[started[LastKey].proc].state = "running"

\* C1: a start called after a start of the same kind and camera that succeeded,
\* with the child still alive and no stop in between, returns the same success
\* outcome as the first, spawns nothing, and the registry holds the one entry
\* of the first child.
C1_SecondStartIdempotent ==
    SecondStart =>
        /\ last.ev = "return"
        /\ last.result = TRUE
        /\ last.filename = started[LastKey].filename
        /\ LastKey \in DOMAIN activeProcesses
        /\ activeProcesses[LastKey].process = started[LastKey].proc

\* C2: in every reachable state every key has at most one spawned child that
\* has not exited.
C2_AtMostOneLivePerKey == \A k \in AllKeys : Cardinality(Live(k)) <= 1

\* the last step was the return of a stopHlsStream or a stopRecording
StopReturned == last.ev = "return" /\ last.op \in StopOps

\* C3: when stopHlsStream or stopRecording returns, after the child's exit as
\* well as after the timeout and the SIGKILL, the registry has no entry for the
\* key of the call.
C3_NoEntryAfterStop == StopReturned => LastKey \notin DOMAIN activeProcesses

\* a stop returns after its timeout while the child it killed is still there
C3_Witness ==
    /\ StopReturned
    /\ last.killed
    /\ procs[last.proc].state = "running"
    /\ LastKey \notin DOMAIN activeProcesses

\* C4: a stopHlsStream or stopRecording that found an entry removes it and
\* returns only after it has seen the exit event of the child it signalled, on
\* the timeout path too.
C4_ReturnAfterExit == (StopReturned /\ last.hadEntry) => last.exitSeen

\* C5: a child that stopHlsStream or stopRecording has signalled is sent SIGKILL
\* if and only if it has not exited within 5 s (hls) or 10 s (recording) of that
\* first signal: no SIGKILL reaches it before that time is over, it does not
\* exit unkilled after it, and it does not run on unkilled after it.
C5_KillIffNoExitInWindow ==
    \A p \in DOMAIN procs :
        /\ ~procs[p].earlyKill
        /\ ~procs[p].lateExit
        /\ (procs[p].state = "running" /\ procs[p].window = WindowOver)
               => "SIGKILL" \in procs[p].signals

\* C5, per call: a stopHlsStream or stopRecording that found an entry sends
\* SIGKILL if and only if it has not seen the exit of its child when its own
\* timer fires, 5 s (hls) or 10 s (recording) after its own first signal.
C5_StopKillsAtItsTimeout ==
    (StopReturned /\ last.hadEntry) =>
        /\ last.killed <=> ~last.exitSeen
        /\ last.killed => last.elapsed = KindTimeout(TypeOf(last.op))
        /\ last.exitSeen => last.elapsed <= KindTimeout(TypeOf(last.op))

\* a stopRecording has sent SIGKILL, 10 s after its SIGINT, to a child that runs
C5_Witness ==
    /\ StopReturned
    /\ last.op = "stopRecording"
    /\ last.killed
    /\ last.elapsed = RecordingStopTimeout
    /\ "SIGKILL" \in procs[last.proc].signals

\* C6: when stopAllProcesses resolves, no child that had an entry when it was
\* called has an entry any more.
C6_StopAllRemovesSnapshot ==
    (last.ev = "return" /\ last.op = "stopAllProcesses") =>
        \A k \in DOMAIN activeProcesses :
            activeProcesses[k].process \notin last.snapshot

\* stopAllProcesses resolves after its timeout: a child it found still runs
C6_Witness ==
    /\ last.ev = "return"
    /\ last.op = "stopAllProcesses"
    /\ \E p \in last.snapshot : procs[p].state = "running"

\* C7: every entry of the registry is the entry of a child that was spawned
\* with a pid.
C7_EntriesHavePid ==
    \A k \in DOMAIN activeProcesses :
        /\ procs[activeProcesses[k].process].pid # Undefined
        /\ activeProcesses[k].entry.pid # 0

\* C8: a stopHlsStream or stopRecording called with no entry for its key
\* returns true at once, spawns nothing, signals nothing and leaves the
\* registry as it was.
C8_StopMissIsNoOp ==
    [][ ( /\ NoMicrotask
          /\ last'.op \in StopOps
          /\ last'.ev \in {"call", "return"}
          /\ LastKey' \notin DOMAIN activeProcesses )
        => ( /\ last'.ev = "return"
             /\ last'.result = TRUE
             /\ last'.sent = {}
             /\ last'.spawned = 0
             /\ activeProcesses' = activeProcesses
             /\ procs' = procs ) ]_vars

\* a stop found no entry for its key while the registry held another entry and
\* a child of the key was still running
C8_Witness ==
    /\ StopReturned
    /\ ~last.hadEntry
    /\ last.result
    /\ activeProcesses # EmptyMap
    /\ Live(LastKey) # {}

\* C9: a startHlsStream or startRecording called with an empty URL, or with a
\* negative ffmpeg probe, returns false (success false) at once, spawns
\* nothing, signals nothing and leaves the registry as it was.
C9_StartEarlyFailure ==
    [][ ( /\ NoMicrotask
          /\ last'.op \in StartOps
          /\ last'.ev \in {"call", "return"}
          /\ last'.spawned = 0
          /\ (last'.url = "" \/ ~last'.probe) )
        => ( /\ last'.ev = "return"
             /\ last'.result = FALSE
             /\ last'.filename = NoFilename
             /\ last'.sent = {}
             /\ activeProcesses' = activeProcesses
             /\ procs' = procs ) ]_vars

\* a start with an empty URL and a positive probe has failed, with an entry for
\* its key in the registry
C9_Witness ==
    /\ last.ev = "return"
    /\ last.op \in StartOps
    /\ last.url = ""
    /\ last.probe
    /\ ~last.result
    /\ LastKey \in DOMAIN activeProcesses

\* a start with a URL and a negative probe has failed
C9_WitnessProbe ==
    /\ last.ev = "return"
    /\ last.op \in StartOps
    /\ last.url # ""
    /\ last.probed /\ ~last.probe
    /\ ~last.result

\* the last step was the return of a start that reached its spawn
SpawnReturned == last.ev = "return" /\ last.op \in StartOps /\ last.spawned # 0

\* C10: a start that reached its spawn returns true (success true, with the
\* filename it generated) if and only if the spawned child has a pid.
C10_SuccessIffPid ==
    SpawnReturned =>
        /\ last.result <=> procs[last.spawned].pid # Undefined
        /\ (last.op = "startRecording" /\ last.result)
               => last.filename = GenerateRecordingFilename(now)

\* a startRecording whose spawn gave no pid has returned
C10_Witness ==
    /\ SpawnReturned
    /\ last.op = "startRecording"
    /\ procs[last.spawned].pid = Undefined
    /\ ~last.result

\* the last step was the begin of a start call that got past the URL and the
\* probe checks
StartPassedChecks ==
    /\ last.op \in StartOps
    /\ last.ev \in {"call", "return"}
    /\ last.spawned = 0
    /\ last.url # "" /\ last.probed /\ last.probe

\* C11: startRecording called with a URL and a positive probe while the key has
\* an entry returns success with the filename the start that made the entry
\* generated, spawns nothing and leaves the registry and the children as they
\* were.
C11_AlreadyRecording ==
    [][ ( /\ NoMicrotask
          /\ StartPassedChecks'
          /\ last'.op = "startRecording"
          /\ LastKey' \in DOMAIN activeProcesses )
        => ( /\ last'.ev = "return"
             /\ last'.result = TRUE
             /\ last'.filename =
                    GenerateRecordingFilename(activeProcesses[LastKey'].entry.startTime)
             /\ last'.sent = {}
             /\ activeProcesses' = activeProcesses
             /\ procs' = procs ) ]_vars

\* startRecording has found the entry of a running child and returned its
\* filename
C11_Witness ==
    /\ StartPassedChecks
    /\ last.op = "startRecording"
    /\ last.ev = "return"
    /\ last.hadEntry
    /\ last.result
    /\ last.filename # NoFilename
    /\ LastKey \in DOMAIN activeProcesses
    /\ procs[activeProcesses[LastKey].process].state = "running"

\* C12: a stopRecording that finds an entry asks with SIGINT, and with SIGTERM
\* only when kill('SIGINT') threw; it sends nothing else before it waits; and
\* when it sees the child exit within its 10 s it returns true and has sent no
\* SIGKILL.
C12_InterruptFirst ==
    /\ (last.op = "stopRecording" /\ last.ev = "call") =>
           /\ last.graceful = IF last.intThrew THEN "SIGTERM" ELSE "SIGINT"
           /\ last.sent \subseteq {<<last.proc, last.graceful>>}
    /\ (StopReturned /\ last.op = "stopRecording" /\ last.exitSeen) =>
           /\ last.result = TRUE
           /\ ~last.killed
           /\ last.elapsed <= RecordingStopTimeout

\* a stopRecording that asked with SIGINT alone has seen its child exit, with
\* time left, and has returned
C12_Witness ==
    /\ StopReturned
    /\ last.op = "stopRecording"
    /\ last.graceful = "SIGINT"
    /\ last.exitSeen
    /\ last.elapsed < RecordingStopTimeout
    /\ procs[last.proc].state = "exited"

\* C13: every signal by which the manager asks a recording child to stop
\* gracefully is SIGINT: the one of stopRecording (SIGTERM only when
\* kill('SIGINT') threw) and the one that stopAllProcesses sends to a recording
\* child.
C13_RecordingAskedBySigint ==
    /\ (last.op = "stopRecording" /\ last.ev = "call") =>
           (last.graceful = "SIGTERM" => last.intThrew)
    /\ (last.op = "stopAllProcesses" /\ last.ev = "call") =>
           \A d \in last.sent :
               procs[d[1]].type = "recording" => d[2] = "SIGINT"

\* C13, as the code has it: stopRecording asks with SIGINT (SIGTERM only when
\* kill('SIGINT') threw), and stopAllProcesses asks every child it finds, the
\* recording ones too, with SIGTERM.
C13_SigintByStopRecordingOnly ==
    /\ (last.op = "stopRecording" /\ last.ev = "call") =>
           (last.graceful = "SIGTERM" => last.intThrew)
    /\ (last.op = "stopAllProcesses" /\ last.ev = "call") =>
           /\ \A d \in last.sent : d[2] = "SIGTERM"
           /\ \A q \in last.snapshot :
                  procs[q].state = "running" => <<q, "SIGTERM">> \in last.sent

\* stopAllProcesses has sent SIGTERM to a recording child that runs
C13_Witness ==
    /\ last.op = "stopAllProcesses"
    /\ last.ev = "call"
    /\ \E d \in last.sent :
           /\ procs[d[1]].type = "recording"
           /\ procs[d[1]].state = "running"
           /\ d[2] = "SIGTERM"

\* the children of a set that run
Running(ps) == {q \in ps : procs[q].state = "running"}

\* C14: stopAllProcesses sends SIGTERM to the child of every entry the registry
\* has when it is called, all in the step of the call; its timers fire 5 s
\* later, whatever the type, and send SIGKILL to the children of the call that
\* have not exited by then and to no other; it resolves without a SIGKILL only
\* when all of them are gone; and the registry is empty when it resolves.
C14_StopAllSequence ==
    /\ (last.op = "stopAllProcesses" /\ last.ev = "call") =>
           /\ last.snapshot =
                  {activeProcesses[k].process : k \in DOMAIN activeProcesses}
           /\ last.sent = {<<q, "SIGTERM">> : q \in Running(last.snapshot)}
           /\ \A q \in Running(last.snapshot) : "SIGTERM" \in procs[q].signals
    /\ (last.op = "stopAllProcesses" /\ last.ev = "timeout") =>
           /\ last.elapsed = StopAllTimeout
           /\ last.sent = {<<q, "SIGKILL">> : q \in Running(last.snapshot)}
           /\ \A q \in Running(last.snapshot) : "SIGKILL" \in procs[q].signals
    /\ (last.op = "stopAllProcesses" /\ last.ev = "return") =>
           /\ activeProcesses = EmptyMap
           /\ last.killed => last.elapsed = StopAllTimeout
           /\ ~last.killed => Running(last.snapshot) = {}

\* stopAllProcesses found a stream and a recording, killed both after 5 s and
\* has resolved
C14_Witness ==
    /\ last.op = "stopAllProcesses"
    /\ last.ev = "return"
    /\ last.killed
    /\ {procs[q].type : q \in Running(last.snapshot)} = {"hls", "recording"}
    /\ \A q \in last.snapshot : "SIGKILL" \in procs[q].signals

\* C15: the host exits on SIGTERM or SIGINT only after the stopAllProcesses
\* that this signal's handler called has resolved: when the host has exited,
\* a stopAllProcesses called by a handler has cleared the registry and its
\* promise is resolved.
C15_ExitAfterStopAll ==
    host = "exited" =>
        /\ \E t \in Tasks :
              /\ tasks[t].op = "stopAllProcesses"
              /\ tasks[t].byHost
              /\ tasks[t].pc = "exiting"
        /\ activeProcesses = EmptyMap

\* the host has exited after a stopAllProcesses that found a child, waited its
\* 5 s and killed it
C15_Witness ==
    /\ host = "exited"
    /\ last.ev = "exit"
    /\ last.killed
    /\ last.snapshot # {}

\* C16: a start whose primary and fallback directory both cannot be made
\* resolves to false (success false), and no operation ends by rejecting.
C16_NoRejection ==
    /\ last.ev # "reject"
    /\ last.dirs = <<FALSE, FALSE>> =>
           /\ last.ev = "return"
           /\ last.result = FALSE
           /\ last.spawned = 0

\* the last step was the spawn of a start, with the entry it has set
Spawned ==
    /\ last.op \in StartOps
    /\ last.spawned # 0
    /\ last.dirs # <<>>
    /\ LastKey \in DOMAIN activeProcesses
    /\ activeProcesses[LastKey].process = last.spawned

\* C17: a start whose primary directory is there or can be made does not try
\* the fallback and registers an output path under the primary directory; the
\* output path is under the temporary directory only when making the primary
\* directory failed.
C17_FallbackOnlyAfterPrimaryFailed ==
    (last.op \in StartOps /\ last.spawned # 0 /\ last.dirs # <<>>) =>
        /\ Spawned
        /\ LET path == activeProcesses[LastKey].entry.outputPath
           IN  /\ last.dirs[1] => (Len(last.dirs) = 1 /\ path[1] = "cwd")
               /\ path[1] = "tmp" => ~last.dirs[1]
               /\ path[1] \in {"cwd", "tmp"}
               /\ path[Len(path) - 1] = last.cameraId

\* a start whose primary directory could not be made has spawned with its
\* output under the temporary directory
C17_Witness ==
    /\ Spawned
    /\ last.dirs = <<FALSE, TRUE>>
    /\ activeProcesses[LastKey].entry.outputPath[1] = "tmp"

\* the characters of a generated filename that change with the time
StampDigits(t) ==
    <<((30 + (t \div 60)) \div 10) % 10, (30 + (t \div 60)) % 10,
      ((t % 60) \div 10) % 10, (t % 60) % 10>>

\* a sorts before b, character by character
LexLess(a, b) ==
    \E i \in 1..Len(a) : a[i] < b[i] /\ \A j \in 1..(i - 1) : a[j] = b[j]

\* the times the clock can show in a run
StampTimes == 0..(TickStep * MaxProcs)

\* filename f sorts after filename g
SortsAfter(f, g) ==
    \E u, v \in StampTimes :
        /\ f = GenerateRecordingFilename(u)
        /\ g = GenerateRecordingFilename(v)
        /\ LexLess(StampDigits(v), StampDigits(u))

\* C18: the filename a startRecording generates differs from, and sorts after,
\* the filename the startRecording before it generated.
C18_FilenamesIncrease ==
    [][ ( /\ last'.op = "startRecording"
          /\ last'.spawned # 0
          /\ lastFilename # NoFilename )
        => ( /\ lastFilename' # lastFilename
             /\ SortsAfter(lastFilename', lastFilename) ) ]_vars

\* an entry or a child r that is not of the camera and type of the operation
\* of event ev
Other(r, ev) == r.cameraId # ev.cameraId \/ r.type # TypeOf(ev.op)

\* C19: a step of startHlsStream, stopHlsStream, startRecording or
\* stopRecording for a camera and type leaves the entries of every other
\* camera and type as they were, inserts none, and leaves every child of
\* another camera or type as it was.
C19_OtherKeysUntouched ==
    [][ last'.op \in (StartOps \cup StopOps) =>
          /\ \A k \in DOMAIN activeProcesses :
                Other(activeProcesses[k].entry, last') =>
                   /\ k \in DOMAIN activeProcesses'
                   /\ activeProcesses'[k] = activeProcesses[k]
          /\ \A k \in DOMAIN activeProcesses' :
                Other(activeProcesses'[k].entry, last') =>
                   /\ k \in DOMAIN activeProcesses
                   /\ activeProcesses'[k] = activeProcesses[k]
          /\ \A q \in DOMAIN procs :
                Other(procs[q], last') => procs'[q] = procs[q] ]_vars

\* a stopHlsStream has killed its child and returned while the recording of the
\* camera has its entry and its child runs unsignalled
C19_Witness ==
    /\ StopReturned
    /\ last.op = "stopHlsStream"
    /\ last.killed
    /\ \E k \in DOMAIN activeProcesses :
          /\ activeProcesses[k].entry.type = "recording"
          /\ activeProcesses[k].entry.cameraId = last.cameraId
          /\ procs[activeProcesses[k].process].state = "running"
          /\ procs[activeProcesses[k].process].signals = {}

\* C20: the queries change nothing, and they answer what the registry holds:
\* isStreaming / isRecording say whether the key has an entry, getRecordingInfo
\* gives the metadata of the recording entry exactly when there is one, and
\* getAllActiveProcesses gives the metadata of every entry, one each.
C20_QueriesAgree ==
    [][ last'.op = "query" =>
          LET hls == GetProcessKey(last'.cameraId, "hls")
              rec == GetProcessKey(last'.cameraId, "recording")
          IN  /\ UNCHANGED <<activeProcesses, procs, tasks, started, host>>
              /\ last'.isStreaming <=> hls \in DOMAIN activeProcesses
              /\ last'.isRecording <=> rec \in DOMAIN activeProcesses
              /\ last'.info # {} <=> last'.isRecording
              /\ \A e \in last'.info : e = activeProcesses[rec].entry
              /\ DOMAIN last'.listActive = DOMAIN activeProcesses
              /\ \A k \in DOMAIN activeProcesses :
                    last'.listActive[k] = activeProcesses[k].entry ]_vars

\* the queries have answered about a camera that streams and records
C20_Witness ==
    /\ last.op = "query"
    /\ last.isStreaming
    /\ last.isRecording
    /\ last.info # {}
    /\ Cardinality(DOMAIN last.listActive) = 2

\* child p exits in this step, on its own: nothing has signalled it
OwnExit(p) ==
    /\ procs[p].state = "running"
    /\ procs[p].signals = {}
    /\ procs'[p].state = "exited"

\* C21: when a child exits on its own, the step of its exit removes the entry
\* of its key, so isStreaming / isRecording of its camera is false after it;
\* the step spawns nothing, signals nothing and leaves every other entry and
\* every other child as they were.
C21_OwnExitCleansUp ==
    [][ \A p \in DOMAIN procs :
          OwnExit(p) =>
             LET key == GetProcessKey(procs[p].cameraId, procs[p].type)
             IN  /\ key \notin DOMAIN activeProcesses'
                 /\ procs[p].type = "hls" => ~IsStreaming(procs[p].cameraId)'
                 /\ procs[p].type = "recording" => ~IsRecording(procs[p].cameraId)'
                 /\ \A k \in DOMAIN activeProcesses \ {key} :
                        /\ k \in DOMAIN activeProcesses'
                        /\ activeProcesses'[k] = activeProcesses[k]
                 /\ DOMAIN activeProcesses' \subseteq DOMAIN activeProcesses
                 /\ Len(procs') = Len(procs)
                 /\ \A q \in DOMAIN procs \ {p} : procs'[q] = procs[q] ]_vars

\* a child whose start returned success has exited with no stop called on its
\* key since, and its key has no entry
C21_Witness ==
    \E k \in AllKeys :
        /\ started[k].proc # 0
        /\ procs[started[k].proc].state = "exited"
        /\ k \notin DOMAIN activeProcesses
        /\ \A t \in Tasks : tasks[t].op = "idle"

\* C22: an insert never overwrites an entry: the metadata and the child under a
\* key do not change while the key stays registered, so between two inserts
\* under a key there is a removal of the key.
C22_NoOverwrite ==
    [][ \A k \in DOMAIN activeProcesses \cap DOMAIN activeProcesses' :
          activeProcesses'[k] = activeProcesses[k] ]_vars

\* the last step was the return of a startHlsStream whose spawn gave no pid
FailedSpawnReturned ==
    /\ last.ev = "return"
    /\ last.op = "startHlsStream"
    /\ last.spawned # 0
    /\ procs[last.spawned].pid = Undefined

\* C23: when startHlsStream returns false after a spawn that gave no pid, the
\* error listener has run within the settle delay and the registry has no entry
\* for the stream of the camera: isStreaming is false.
C23_NoEntryAfterFailedSpawn ==
    FailedSpawnReturned =>
        /\ last.result = FALSE
        /\ procs[last.spawned].state = "errored"
        /\ ~IsStreaming(last.cameraId)

\* the last step was the begin of a start call: its early exits, or its way on
StartBegun ==
    /\ last.op \in StartOps
    /\ last.ev \in {"call", "return"}
    /\ last.spawned = 0

\* C24: a start looks at the URL first, then at the probe, then at the entry:
\* with an empty URL it fails and has not run the probe; with a URL and a
\* negative probe it fails; both whether or not its key has an entry, which it
\* leaves as it was with its child; only with a URL and a positive probe the
\* entry of the key makes it return success.
C24_EarlyExitOrder ==
    [][ StartBegun' =>
          /\ last'.hadEntry <=> LastKey' \in DOMAIN activeProcesses
          /\ last'.url = "" =>
                /\ last'.ev = "return"
                /\ last'.result = FALSE
                /\ ~last'.probed
          /\ (last'.url # "" /\ ~last'.probe) =>
                /\ last'.ev = "return"
                /\ last'.result = FALSE
                /\ last'.probed
          /\ (last'.url # "" /\ last'.probe) =>
                /\ last'.probed
                /\ last'.hadEntry => (last'.ev = "return" /\ last'.result = TRUE)
                /\ ~last'.hadEntry => last'.ev = "call"
          /\ activeProcesses' = activeProcesses
          /\ procs' = procs ]_vars

\* a start with a URL and a negative probe has failed while its key has the
\* entry of a child that runs
C24_Witness ==
    /\ StartBegun
    /\ last.ev = "return"
    /\ last.url # ""
    /\ last.probed /\ ~last.probe
    /\ ~last.result
    /\ last.hadEntry
    /\ LastKey \in DOMAIN activeProcesses
    /\ procs[activeProcesses[LastKey].process].state = "running"
    /\ procs[activeProcesses[LastKey].process].signals = {}

\* C25: an entry is removed by the exit or error listener, or by the tail of a
\* stopHlsStream / stopRecording, only when it is the entry of the child that
\* exited, failed, or was stopped by that call: the late exit of an old child
\* and a stop that waited for an old child leave the entry of a new child of
\* the key in place.
C25_RemovalOfOwnEntryOnly ==
    [][ \A k \in DOMAIN activeProcesses \ DOMAIN activeProcesses' :
          LET q == activeProcesses[k].process
          IN  \/ last'.op = "stopAllProcesses"
              \/ /\ last'.op \in StopOps
                 /\ last'.ev = "return"
                 /\ last'.proc = q
              \/ /\ procs[q].state \in {"running", "failed"}
                 /\ procs'[q].state \in {"exited", "errored"} ]_vars

\* C26: every child that was spawned with a pid, has not exited and has not
\* been sent SIGKILL is the child of the entry of its key, so the queries find
\* it and the stops reach it.
C26_NoOrphan ==
    \A p \in DOMAIN procs :
        (procs[p].state = "running" /\ "SIGKILL" \notin procs[p].signals) =>
            LET key == GetProcessKey(procs[p].cameraId, procs[p].type)
            IN  /\ key \in DOMAIN activeProcesses
                /\ activeProcesses[key].process = p

\* C27: the clear at the end of stopAllProcesses removes only the entries of
\* the children this stopAllProcesses has signalled: an entry that a start has
\* set while stopAllProcesses waited stays in the registry.
C27_ClearOnlySignalled ==
    [][ (last'.op = "stopAllProcesses" /\ last'.ev = "return") =>
          \A k \in DOMAIN activeProcesses :
              \/ activeProcesses[k].process \in last'.snapshot
              \/ /\ k \in DOMAIN activeProcesses'
                 /\ activeProcesses'[k] = activeProcesses[k] ]_vars

\* ------------------------------------------------------------------ liveness

\* a resolved await, or the .then of the signal handler, resumes
Resume ==
    \E t \in Tasks :
        \/ StopHlsReturn(t) \/ StopRecordingReturn(t) \/ StopAllReturn(t)
        \/ HostExit(t)

\* the nextTick of a failed spawn runs, time passes, a timer whose time is up
\* fires
LoopStep ==
    \/ Tick
    \/ \E p \in DOMAIN procs : ProcError(p)
    \/ \E t \in Tasks :
          \/ HlsSettled(t)
          \/ StopHlsTimer(t) \/ StopRecordingTimer(t) \/ StopAllTimer(t)

\* The caller takes a result it is given, a continuation that is queued runs,
\* and the loop is not starved: however many calls come in, it runs one of its
\* steps again and again while one is ready
Fairness == WF_vars(Ack) /\ WF_vars(Resume) /\ SF_vars(LoopStep)

\* The steps of the liveness specification: those of Step without the queries
\* and without the calls that end before they spawn or signal anything (an
\* empty URL, a negative probe, a directory that cannot be made), which change
\* neither the registry nor a child nor a timer
LiveStep ==
    \/ \E t \in Tasks, c \in Cameras : StartHlsStream(t, c, "rtsp://valid", TRUE)
    \/ \E t \in Tasks, pidOk \in BOOLEAN : HlsEnsureDir(t, TRUE, pidOk)
    \/ \E t \in Tasks, c \in Cameras : StartRecording(t, c, "rtsp://valid", TRUE)
    \/ \E t \in Tasks, pidOk \in BOOLEAN : RecordingEnsureDir(t, TRUE, pidOk)
    \/ \E t \in Tasks, c \in Cameras : StopHlsStream(t, c)
    \/ \E t \in Tasks, c \in Cameras, intOk \in BOOLEAN : StopRecording(t, c, intOk)
    \/ \E t \in Tasks, byHost \in BOOLEAN : StopAllProcesses(t, byHost)
    \/ \E p \in DOMAIN procs : ProcExit(p)
    \/ Resume
    \/ LoopStep

LiveNext == Ack \/ LiveStep

LiveSpec == Init /\ [][LiveNext]_vars /\ Fairness

\* slot t holds a stop call that has signalled and waits, or has resumed and
\* not yet returned
Stopping(t) ==
    /\ tasks[t].op \in StopOps \cup {"stopAllProcesses"}
    /\ tasks[t].pc \in {"wait", "resolved"}

\* C28: every stopHlsStream, stopRecording and stopAllProcesses that waits for
\* its children returns while the host runs, whether or not a child ever exits:
\* its timer ends the wait. No slot holds a stop that waits for ever: again and
\* again the slot is free of it.
C28_StopsReturn ==
    \A t \in Tasks : []<>(~Stopping(t) \/ host = "exited")

\* a stopHlsStream has returned after its 5 s, with its child signalled twice
\* and still there
C28_Witness ==
    /\ StopReturned
    /\ last.op = "stopHlsStream"
    /\ last.killed
    /\ last.elapsed = HlsStopTimeout
    /\ procs[last.proc].state = "running"
    /\ procs[last.proc].signals = {"SIGTERM", "SIGKILL"}

\* C29: when startHlsStream returns true and no other call on its key, and no
\* stopAllProcesses, has come since it began, the registry has the entry of
\* the stream of its camera: isStreaming is true, getAllActiveProcesses has one
\* hls entry of the camera, and a call that spawned finds its own child there.
C29_TrueMeansStreaming ==
    ( /\ last.ev = "return"
      /\ last.op = "startHlsStream"
      /\ last.result
      /\ last.solo ) =>
        /\ IsStreaming(last.cameraId)
        /\ Cardinality({k \in DOMAIN GetAllActiveProcesses :
              /\ GetAllActiveProcesses[k].type = "hls"
              /\ GetAllActiveProcesses[k].cameraId = last.cameraId}) = 1
        /\ last.spawned # 0 => activeProcesses[LastKey].process = last.spawned

\* camera ids that end like a key, next to those of the configuration
KeyIds == Cameras \cup {"cam", "cam-hls", "cam-recording", "cam-hls-recording"}

\* C30: every entry is stored under the key of its own camera and type, an hls
\* entry under the key of a stream and a recording entry under the key of a
\* recording, and two different pairs of camera and type never have the same
\* key.
C30_KeyMatchesEntry ==
    /\ \A k \in DOMAIN activeProcesses :
          LET e == activeProcesses[k].entry
          IN  /\ e.type \in Types
              /\ e.cameraId \in Cameras
              /\ k = GetProcessKey(e.cameraId, e.type)
              /\ procs[activeProcesses[k].process].state = "running" =>
                    /\ procs[activeProcesses[k].process].type = e.type
                    /\ procs[activeProcesses[k].process].cameraId = e.cameraId
    /\ \A c1 \in KeyIds, c2 \in KeyIds, t1 \in Types, t2 \in Types :
          GetProcessKey(c1, t1) = GetProcessKey(c2, t2) => (c1 = c2 /\ t1 = t2)

\* the registry holds the stream and the recording of one camera, each under
\* its own key
C30_Witness ==
    \E c \in Cameras :
        /\ DOMAIN activeProcesses = {GetProcessKey(c, "hls"), GetProcessKey(c, "recording")}
        /\ activeProcesses[GetProcessKey(c, "hls")].entry.type = "hls"
        /\ activeProcesses[GetProcessKey(c, "recording")].entry.type = "recording"
        /\ activeProcesses[GetProcessKey(c, "hls")].process
               # activeProcesses[GetProcessKey(c, "recording")].process

====
